---- MODULE Spec2Model ----
(***************************************************************************)
(* Model of the LeetCode progress tracker: the progress store (db.rs), the *)
(* attempt transitions (problem_attempts.rs), the catalog population       *)
(* (problem_bank_populator.rs, problems.rs) and the command dispatch of    *)
(* main (main.rs).                                                         *)
(*                                                                         *)
(* Representation.                                                         *)
(*   Option<T>        None is <<>>, Some(x) is <<x>>.                      *)
(*   NaiveDate        the number of days since 1970-01-01 (an integer);    *)
(*                    the largest representable date is NaiveDateMAX and   *)
(*                    `date + Duration` panics beyond it.                  *)
(*   date string      the text given on the command line, as the tuple of  *)
(*                    its numeric fields <<year, month, day>>; a text that *)
(*                    is not three numbers separated by '-' is <<>>.       *)
(*   table            a set of rows (records).  The progress table is      *)
(*                    keyed by problem_id (db.rs:41-43), the problems      *)
(*                    table by id; no foreign key links them.              *)
(*   Problem          its id and order; name, difficulty and week are read *)
(*                    by no condition of the program and are left out.     *)
(* Store I/O failures (a lost connection, a full disk) are not modelled.   *)
(***************************************************************************)
EXTENDS Integers, Sequences, FiniteSets, TLC

\* The cap on number_of_attempts: no command is issued for an item that
\* already has this many attempts.
MaxAttempts == 2

\* The last year a NaiveDate can hold (chrono's NaiveDate::MAX is 31 December
\* of that year).
MaxYear == 262142

None == <<>>

Some(x) == <<x>>

-----------------------------------------------------------------------------
(* Calendar dates *)

IsLeapYear(y) == (y % 4 = 0 /\ y % 100 # 0) \/ y % 400 = 0

DaysInMonth(y, m) ==
    IF m = 2 THEN (IF IsLeapYear(y) THEN 29 ELSE 28)
    ELSE IF m \in {4, 6, 9, 11} THEN 30 ELSE 31

\* The day number of the civil date y-m-d (days since 1970-01-01).
DaysFromCivil(y, m, d) ==
    LET yy  == IF m <= 2 THEN y - 1 ELSE y
        era == yy \div 400
        yoe == yy - era * 400
        mp  == (m + 9) % 12
        doy == (153 * mp + 2) \div 5 + d - 1
        doe == yoe * 365 + yoe \div 4 - yoe \div 100 + doy
    IN  era * 146097 + doe - 719468

NaiveDateMAX == DaysFromCivil(MaxYear, 12, 31)

\* NaiveDate::parse_from_str(text, "%Y-%m-%d"): Ok(date) as <<date>>, Err as <<>>.
parse_from_str(text) ==
    IF Len(text) # 3 THEN None
    ELSE LET y == text[1]
             m == text[2]
             d == text[3]
         IN  IF /\ y \in 0..MaxYear
                /\ m \in 1..12
                /\ d \in 1..DaysInMonth(y, m)
             THEN Some(DaysFromCivil(y, m, d))
             ELSE None

\* `date + Duration::days(days)` panics when the sum is not a NaiveDate.
AddOverflows(date, days) == date + days > NaiveDateMAX

-----------------------------------------------------------------------------
(* problem_attempts.rs *)

AttemptRating == {"Easy", "Hard", "Messy", "LongFail", "ShortFail"}

next_interval_two_days(most_recent_attempt_rating, total_number_of_attempts) ==
    Some(2)

\* The interval in days; None when no further review is scheduled.
next_interval(most_recent_attempt_rating, total_number_of_attempts) ==
    LET very_clever_calculation_for_days == 1
    IN  Some(very_clever_calculation_for_days)

\* `interval.map(|days| date + days)` panics exactly when the addition does.
MapAddPanics(interval, date) ==
    interval # None /\ AddOverflows(date, interval[1])

MapAdd(interval, date) ==
    IF interval = None THEN None ELSE Some(date + interval[1])

\* ProblemAttempt::new_attempt; `now` is what Local::now().date_naive() returns.
\* The result is the new record, or a panic that yields nothing.
new_attempt(problem_id, attempt_rating, attempt_date, now) ==
    LET last_attempted == IF attempt_date # None THEN attempt_date[1] ELSE now
        interval == next_interval(attempt_rating, 0)
    IN  IF MapAddPanics(interval, last_attempted)
        THEN [panic |-> TRUE, value |-> None]
        ELSE [panic |-> FALSE,
              value |-> Some([problem_id |-> problem_id,
                              last_attempted |-> last_attempted,
                              attempt_rating |-> attempt_rating,
                              next_attempt_date |-> MapAdd(interval, last_attempted),
                              number_of_attempts |-> 1])]

update_attempt_no_increment(self, latest_rating, attempt_date, now) ==
    LET s1 == [self EXCEPT !.attempt_rating = latest_rating]
        s3 == [s1 EXCEPT !.last_attempted =
                  IF attempt_date # None THEN attempt_date[1] ELSE now]
        interval == next_interval(latest_rating, s3.number_of_attempts)
    IN  IF MapAddPanics(interval, s3.last_attempted)
        THEN [panic |-> TRUE, self |-> s3]
        ELSE [panic |-> FALSE,
              self |-> [s3 EXCEPT !.next_attempt_date =
                           MapAdd(interval, s3.last_attempted)]]

update_attempt_stale_date(self, latest_rating, attempt_date, now) ==
    LET s1 == [self EXCEPT !.attempt_rating = latest_rating]
        s2 == [s1 EXCEPT !.number_of_attempts = @ + 1]
        interval == next_interval(latest_rating, s2.number_of_attempts)
        s3 == [s2 EXCEPT !.last_attempted =
                  IF attempt_date # None THEN attempt_date[1] ELSE now]
    IN  IF MapAddPanics(interval, s2.last_attempted)
        THEN [panic |-> TRUE, self |-> s3]
        ELSE [panic |-> FALSE,
              self |-> [s3 EXCEPT !.next_attempt_date =
                           MapAdd(interval, s2.last_attempted)]]

update_attempt_keeps_rating(self, latest_rating, attempt_date, now) ==
    LET s2 == [self EXCEPT !.number_of_attempts = @ + 1]
        s3 == [s2 EXCEPT !.last_attempted =
                  IF attempt_date # None THEN attempt_date[1] ELSE now]
        interval == next_interval(latest_rating, s3.number_of_attempts)
    IN  IF MapAddPanics(interval, s3.last_attempted)
        THEN [panic |-> TRUE, self |-> s3]
        ELSE [panic |-> FALSE,
              self |-> [s3 EXCEPT !.next_attempt_date =
                           MapAdd(interval, s3.last_attempted)]]

update_attempt_on_copy(self, latest_rating, attempt_date, now) ==
    [panic |-> FALSE, self |-> self]

\* ProblemAttempt::update_attempt(&mut self, ..): the assignments to *self in
\* program order.  `self` of the result is the receiver when the call ends: by
\* a return, or by the panic of the date addition (the receiver then already
\* carries the new rating, count and date, and still the old next_attempt_date).
update_attempt(self, latest_rating, attempt_date, now) ==
    LET s1 == [self EXCEPT !.attempt_rating = latest_rating]
        s2 == [s1 EXCEPT !.number_of_attempts = @ + 1]
        s3 == [s2 EXCEPT !.last_attempted =
                  IF attempt_date # None THEN attempt_date[1] ELSE now]
        interval == next_interval(latest_rating, s3.number_of_attempts)
    IN  IF MapAddPanics(interval, s3.last_attempted)
        THEN [panic |-> TRUE, self |-> s3]
        ELSE [panic |-> FALSE,
              self |-> [s3 EXCEPT !.next_attempt_date =
                           MapAdd(interval, s3.last_attempted)]]

-----------------------------------------------------------------------------
(* The store: the tables and the statements of db.rs and problems.rs *)

\* SELECT * FROM progress WHERE problem_id = ?
RowsOf(table, problem_id) == {r \in table : r.problem_id = problem_id}

InsertPlain(table, row) == table \cup {row}

InsertTruncating(table, row) == {row}

\* INSERT OR REPLACE INTO progress ...: the rows that conflict with the new row
\* on the key problem_id are deleted, then the new row is inserted.
InsertOrReplace(table, row) ==
    {r \in table : r.problem_id # row.problem_id} \cup {row}

\* UPDATE progress SET last_attempted = ?, attempt_rating = ?,
\* next_attempt_date = ?, number_of_attempts = ? WHERE problem_id = ?
UpdateWhere(table, rec) ==
    {IF r.problem_id = rec.problem_id
        THEN [r EXCEPT !.last_attempted = rec.last_attempted,
                       !.attempt_rating = rec.attempt_rating,
                       !.next_attempt_date = rec.next_attempt_date,
                       !.number_of_attempts = rec.number_of_attempts]
        ELSE r : r \in table}

\* INSERT OR IGNORE INTO problems ...: a row whose id is taken is dropped.
InsertOrIgnore(table, row) ==
    IF \E q \in table : q.id = row.id THEN table ELSE table \cup {row}

\* fetch_progress: fetch_optional gives the row found, or None.
fetch_progress(table, problem_id) ==
    LET rows == RowsOf(table, problem_id)
    IN  IF rows = {} THEN None ELSE Some(CHOOSE r \in rows : TRUE)

\* add_or_replace_progress: the table afterwards and how the call ended.
add_or_replace_progress(table, problem_id, rating, attempt_date, now) ==
    LET new_progress == new_attempt(problem_id, rating, attempt_date, now)
    IN  IF new_progress.panic
        THEN [status |-> "panic", table |-> table, current |-> None]
        ELSE [status |-> "ok",
              table |-> InsertOrReplace(table, new_progress.value[1]),
              current |-> new_progress.value]

update_progress_upsert(table, problem_id, latest_rating, attempt_date, now) ==
    LET fetched == fetch_progress(table, problem_id)
    IN  IF fetched = None
        THEN add_or_replace_progress(table, problem_id, latest_rating, attempt_date, now)
        ELSE LET updated == update_attempt(fetched[1], latest_rating, attempt_date, now)
             IN  IF updated.panic
                 THEN [status |-> "panic", table |-> table,
                       current |-> Some(updated.self)]
                 ELSE [status |-> "ok",
                       table |-> UpdateWhere(table, updated.self),
                       current |-> Some(updated.self)]

\* update_progress: the table afterwards, how the call ended, and `current`,
\* the local current_progress when the call ends (None when nothing was fetched).
update_progress(table, problem_id, latest_rating, attempt_date, now) ==
    LET fetched == fetch_progress(table, problem_id)
    IN  IF fetched = None
        THEN [status |-> "NoPriorAttempt", table |-> table, current |-> None]
        ELSE LET updated == update_attempt(fetched[1], latest_rating, attempt_date, now)
             IN  IF updated.panic
                 THEN [status |-> "panic", table |-> table,
                       current |-> Some(updated.self)]
                 ELSE [status |-> "ok",
                       table |-> UpdateWhere(table, updated.self),
                       current |-> Some(updated.self)]

\* problems p LEFT JOIN progress pr ON p.id = pr.problem_id: every pair that
\* matches, and <<p, None>> for a problem that matches nothing.
LeftJoin(catalog, table) ==
    {<<p, Some(pr)>> : <<p, pr>> \in
        {pair \in catalog \X table : pair[1].id = pair[2].problem_id}}
    \cup {<<p, None>> : p \in {q \in catalog : RowsOf(table, q.id) = {}}}

fetch_next_by_id(catalog, table) ==
    LET unattempted == {j[1] : j \in {k \in LeftJoin(catalog, table) : k[2] = None}}
        first == {p \in unattempted : \A q \in unattempted : p.id <= q.id}
    IN  IF unattempted = {} THEN {None} ELSE {Some(p) : p \in first}

\* fetch_next_unattempted_problem: WHERE pr.problem_id IS NULL ORDER BY
\* p."order" ASC LIMIT 1.  The set of the results the query may give: SQL leaves
\* open which of several rows with the same smallest order comes first.
fetch_next_unattempted_problem(catalog, table) ==
    LET unattempted == {j[1] : j \in {k \in LeftJoin(catalog, table) : k[2] = None}}
        first == {p \in unattempted : \A q \in unattempted : p.order <= q.order}
    IN  IF unattempted = {} THEN {None} ELSE {Some(p) : p \in first}

\* fetch_all_progress: progress pr JOIN problems p ON pr.problem_id = p.id, as
\* the set of the ProgressView rows (their print order is left out).
fetch_all_progress(catalog, table) ==
    {[problem_id |-> pair[1].id,
      last_attempted |-> pair[2].last_attempted,
      attempt_rating |-> pair[2].attempt_rating,
      number_of_attempts |-> pair[2].number_of_attempts] :
        pair \in {x \in catalog \X table : x[2].problem_id = x[1].id}}

\* fetch_all_problems, as the set of the rows (their print order is left out).
fetch_all_problems(catalog) == catalog

-----------------------------------------------------------------------------
(* problem_bank.rs, problem_bank_populator.rs *)

Problem(id, order) == [id |-> id, order |-> order]

\* The bank files under ./static/: the catalog of the three items in their
\* order, and a second bank that lists two of them in another order (built
\* first, it leaves items 1 and 3 with the same order value).
BankFiles ==
    [basic |-> <<Problem(1, 1), Problem(2, 2), Problem(3, 3)>>,
     extra |-> <<Problem(3, 1), Problem(2, 3)>>]

\* load_problems: the problems of the file, or None when it cannot be read.
load_problems(name) ==
    IF name \in DOMAIN BankFiles THEN Some(BankFiles[name]) ELSE None

RECURSIVE InsertAll(_, _)
\* The loop of populate_problem_bank: Problem::insert for each, in file order.
InsertAll(catalog, bank) ==
    IF bank = <<>> THEN catalog
    ELSE InsertAll(InsertOrIgnore(catalog, Head(bank)), Tail(bank))

\* populate_problem_bank: the catalog afterwards and how the call ended.
populate_problem_bank(catalog, bank_name) ==
    LET problems_from_json == load_problems(bank_name)
    IN  IF problems_from_json = None
        THEN [status |-> "LoadError", catalog |-> catalog]
        ELSE [status |-> "ok", catalog |-> InsertAll(catalog, problems_from_json[1])]

-----------------------------------------------------------------------------
(* main.rs *)

\* clap's value_parser!(u8).range(1..=5) on the rating argument
rating_value_parser(rating) == rating \in 0..255 /\ rating \in 1..5

\* map_rating; "unreachable" stands for the panic of unreachable!().
map_rating(rating_num) ==
    CASE rating_num = 1 -> "ShortFail"
      [] rating_num = 2 -> "LongFail"
      [] rating_num = 3 -> "Messy"
      [] rating_num = 4 -> "Hard"
      [] rating_num = 5 -> "Easy"
      [] OTHER -> "unreachable"

parse_date_arg_defaults(date) ==
    IF date = None THEN [err |-> FALSE, value |-> None]
    ELSE [err |-> FALSE, value |-> parse_from_str(date[1])]

\* date.map(|d| NaiveDate::parse_from_str(&d, "%Y-%m-%d")).transpose(): an
\* absent argument is Ok(None), a given one is Ok(Some(date)) or the error.
parse_date_arg(date) ==
    IF date = None THEN [err |-> FALSE, value |-> None]
    ELSE LET parsed == parse_from_str(date[1])
         IN  IF parsed = None THEN [err |-> TRUE, value |-> None]
             ELSE [err |-> FALSE, value |-> parsed]

-----------------------------------------------------------------------------
(* State *)

VARIABLES
    problems,   \* the problems table (the catalog)
    progress,   \* the progress table
    last,       \* the last command or call: its arguments and how it ended
    logged,     \* per item, the Attempt commands that reported success
    procs       \* per process, the Attempt command it runs step by step

vars == <<problems, progress, last, logged, procs>>

\* The processes that each run one Attempt command, from another shell.
Procs == {1, 2}

\* A process that has not started its command.
\* pc       where the command stands: "ready", "update_progress" or
\*          "add_or_replace_progress" (the branch main has chosen), "write"
\*          (update_progress before its UPDATE statement), "done"
\* base     number_of_attempts that main's fetch_progress found (0: no record)
\* current  update_progress's local current_progress
ProcReady ==
    [pc |-> "ready", status |-> "-", id |-> 0, rating |-> "-", date |-> None,
     base |-> 0, current |-> None]

\* The items attempted and the items catalogued.
ItemIds == {1, 2}

AllItemIds == {1, 2, 3}

\* The rating argument as typed: 0 and 6 are outside the accepted range.
RawRatings == 0..6

\* The date argument as typed: absent, two dates, 30 February, a text that is
\* no date, and the last date a NaiveDate holds.
DateArgs ==
    {None, Some(<<2024, 1, 1>>), Some(<<2024, 2, 1>>), Some(<<2024, 2, 30>>),
     Some(<<>>), Some(<<MaxYear, 12, 31>>)}

\* What Local::now().date_naive() may return.
Clock == {DaysFromCivil(2024, 1, 1), DaysFromCivil(2024, 2, 1)}

\* The clock is read only when no date is given.
ClockWhen(date) == IF date = None THEN Clock ELSE {CHOOSE now \in Clock : TRUE}

\* The bank names given to --build: a bank, and a name that is no file.
BankNames == {"basic", "missing"}

\* The same, with the second bank.
CatalogBankNames == {"basic", "extra", "missing"}

\* op       the command or the function called
\* status   "ok", or how it failed
\* id       the item given (0: none)
\* rating   the AttemptRating passed on ("-": none)
\* date     the Option<NaiveDate> passed on
\* path     for Attempt: "first" or "update", the branch taken
\* result   what the command printed or the call returned
\* current  the in-memory record when the call ended
\* typed    for Attempt: the arguments read from the command line, as typed
\* prior    last_attempted of the record the item had before, if any
Outcome(op, status, id, rating, date, path, result, current) ==
    [op |-> op, status |-> status, id |-> id, rating |-> rating,
     date |-> date, path |-> path, result |-> result, current |-> current,
     typed |-> <<>>, prior |-> None]

PriorDate(table, id) ==
    LET fetched == fetch_progress(table, id)
    IN  IF fetched = None THEN None ELSE Some(fetched[1].last_attempted)

AttemptsOf(table, id) ==
    IF RowsOf(table, id) = {} THEN 0
    ELSE (CHOOSE r \in RowsOf(table, id) : TRUE).number_of_attempts

\* The database after the migrations have run on a new file: both tables empty.
Init ==
    /\ problems = {}
    /\ progress = {}
    /\ last = Outcome("start", "ok", 0, "-", None, "-", None, None)
    /\ logged = [i \in AllItemIds |-> 0]
    /\ procs = [p \in Procs |-> ProcReady]

-----------------------------------------------------------------------------
(* The commands of main, each run to completion *)

\* Commands::Attempt { id, rating, date }.  clap rejects the rating before the
\* handler runs (the date is then never read); the handler maps the rating,
\* parses the date (the id is not used before), and goes to update_progress or
\* add_or_replace_progress by what fetch_progress finds.
CmdAttempt(id, rating, date, now) ==
    LET attempt_rating == map_rating(rating)
        attempt_date == parse_date_arg(date)
        found == fetch_progress(progress, id) # None
        call == IF found
                THEN update_progress(progress, id, attempt_rating,
                                     attempt_date.value, now)
                ELSE add_or_replace_progress(progress, id, attempt_rating,
                                             attempt_date.value, now)
    IN  /\ AttemptsOf(progress, id) < MaxAttempts
        /\ IF ~rating_value_parser(rating)
           THEN /\ last' = [Outcome("attempt", "InvalidRating", 0, "-", None,
                                    "-", None, None)
                               EXCEPT !.typed = <<rating>>]
                /\ UNCHANGED <<progress, logged>>
           ELSE IF attempt_rating = "unreachable"
           THEN /\ last' = [Outcome("attempt", "panic", 0, "-", None,
                                    "-", None, None)
                               EXCEPT !.typed = <<rating>>]
                /\ UNCHANGED <<progress, logged>>
           ELSE IF attempt_date.err
           THEN /\ last' = [Outcome("attempt", "InvalidDate", 0, attempt_rating,
                                    None, "-", None, None)
                               EXCEPT !.typed = <<rating, date>>]
                /\ UNCHANGED <<progress, logged>>
           ELSE /\ progress' = call.table
                /\ last' = [Outcome("attempt", call.status, id, attempt_rating,
                                    attempt_date.value,
                                    IF found THEN "update" ELSE "first",
                                    None, call.current)
                               EXCEPT !.typed = <<rating, date>>,
                                      !.prior = PriorDate(progress, id)]
                /\ logged' = IF call.status = "ok"
                             THEN [logged EXCEPT ![id] = @ + 1]
                             ELSE logged
        /\ UNCHANGED <<problems, procs>>

\* Commands::Next: prints the problem found, if any.
CmdNext ==
    /\ \E found \in fetch_next_unattempted_problem(problems, progress) :
          last' = Outcome("next", "ok", 0, "-", None, "-", found, None)
    /\ UNCHANGED <<problems, progress, logged, procs>>

\* --progress: prints the attempted problems and their statistics.
CmdProgress ==
    /\ last' = Outcome("progress", "ok", 0, "-", None, "-",
                       Some(fetch_all_progress(problems, progress)), None)
    /\ UNCHANGED <<problems, progress, logged, procs>>

\* Commands::All: prints the catalog.
CmdAll ==
    /\ last' = Outcome("all", "ok", 0, "-", None, "-",
                       Some(fetch_all_problems(problems)), None)
    /\ UNCHANGED <<problems, progress, logged, procs>>

\* --build <bank>: populates the catalog; an error is printed, not returned.
CmdBuild(bank_name) ==
    LET built == populate_problem_bank(problems, bank_name)
    IN  /\ problems' = built.catalog
        /\ last' = Outcome("build", built.status, 0, "-", None, "-",
                           None, None)
        /\ UNCHANGED <<progress, logged, procs>>

\* No command and no flag: the help text is printed.
CmdHelp ==
    /\ last' = Outcome("help", "ok", 0, "-", None, "-", None, None)
    /\ UNCHANGED <<problems, progress, logged, procs>>

Next ==
    \/ \E id \in ItemIds, rating \in RawRatings, date \in DateArgs :
          \E now \in ClockWhen(date) : CmdAttempt(id, rating, date, now)
    \/ CmdNext
    \/ CmdProgress
    \/ CmdAll
    \/ \E bank_name \in BankNames : CmdBuild(bank_name)
    \/ CmdHelp

Spec == Init /\ [][Next]_vars

-----------------------------------------------------------------------------
(* The same commands with every item attempted, for the catalog queries *)

CatalogRatings == {4, 5}

CatalogDateArgs == {Some(<<2024, 1, 1>>), Some(<<2024, 2, 1>>)}

NextCatalog ==
    \/ \E id \in AllItemIds, rating \in CatalogRatings, date \in CatalogDateArgs :
          \E now \in ClockWhen(date) : CmdAttempt(id, rating, date, now)
    \/ CmdNext
    \/ CmdProgress
    \/ CmdAll
    \/ \E bank_name \in CatalogBankNames : CmdBuild(bank_name)
    \/ CmdHelp

SpecCatalog == Init /\ [][NextCatalog]_vars

-----------------------------------------------------------------------------
(* The functions of db.rs called directly, in any order *)

\* What a caller may pass as attempt_date.
ApiDates ==
    {None, Some(DaysFromCivil(2024, 1, 1)), Some(DaysFromCivil(2024, 2, 1)),
     Some(NaiveDateMAX)}

CallAddOrReplaceProgress(problem_id, rating, attempt_date, now) ==
    LET call == add_or_replace_progress(progress, problem_id, rating,
                                        attempt_date, now)
    IN  /\ progress' = call.table
        /\ last' = [Outcome("add_or_replace_progress", call.status, problem_id,
                            rating, attempt_date, "-", None, call.current)
                       EXCEPT !.prior = PriorDate(progress, problem_id)]
        /\ UNCHANGED <<problems, logged, procs>>

CallUpdateProgress(problem_id, latest_rating, attempt_date, now) ==
    LET call == update_progress(progress, problem_id, latest_rating,
                                attempt_date, now)
    IN  /\ AttemptsOf(progress, problem_id) < MaxAttempts
        /\ progress' = call.table
        /\ last' = [Outcome("update_progress", call.status, problem_id,
                            latest_rating, attempt_date, "-", None, call.current)
                       EXCEPT !.prior = PriorDate(progress, problem_id)]
        /\ UNCHANGED <<problems, logged, procs>>

CallFetchProgress(problem_id) ==
    /\ last' = Outcome("fetch_progress", "ok", problem_id, "-", None, "-",
                       fetch_progress(progress, problem_id), None)
    /\ UNCHANGED <<problems, progress, logged, procs>>

CallFetchNextUnattemptedProblem ==
    /\ \E found \in fetch_next_unattempted_problem(problems, progress) :
          last' = Outcome("fetch_next_unattempted_problem", "ok", 0, "-", None,
                          "-", found, None)
    /\ UNCHANGED <<problems, progress, logged, procs>>

CallPopulateProblemBank(bank_name) ==
    LET built == populate_problem_bank(problems, bank_name)
    IN  /\ problems' = built.catalog
        /\ last' = Outcome("populate_problem_bank", built.status, 0, "-", None,
                           "-", None, None)
        /\ UNCHANGED <<progress, logged, procs>>

NextApi ==
    \/ \E problem_id \in ItemIds, rating \in AttemptRating, attempt_date \in ApiDates :
          \E now \in ClockWhen(attempt_date) :
             CallAddOrReplaceProgress(problem_id, rating, attempt_date, now)
    \/ \E problem_id \in ItemIds, rating \in AttemptRating, attempt_date \in ApiDates :
          \E now \in ClockWhen(attempt_date) :
             CallUpdateProgress(problem_id, rating, attempt_date, now)
    \/ \E problem_id \in ItemIds : CallFetchProgress(problem_id)
    \/ CallFetchNextUnattemptedProblem
    \/ \E bank_name \in BankNames : CallPopulateProblemBank(bank_name)

SpecApi == Init /\ [][NextApi]_vars

-----------------------------------------------------------------------------
(* Two Attempt commands run as separate processes on the same database file. *)
(* Each statement sent to the store is atomic; what a process does between   *)
(* two statements is local to it.  A command is three steps or two:          *)
(*   main's fetch_progress (main.rs:145), which chooses the branch;          *)
(*   add_or_replace_progress, one INSERT OR REPLACE; or                      *)
(*   update_progress's fetch_progress and update_attempt (db.rs:93-98),      *)
(*   then its UPDATE statement (db.rs:101-115).                              *)

ConcItems == {1}

ConcDateArgs == {Some(<<2024, 1, 1>>), Some(<<2024, 2, 1>>), Some(<<>>)}

AllReady == \A p \in Procs : procs[p].pc = "ready"

\* The command starts: clap and the handler read the arguments, then main asks
\* fetch_progress whether the item has a record.
ProcMainFetch(p, id, rating, date) ==
    LET attempt_rating == map_rating(rating)
        attempt_date == parse_date_arg(date)
        found == fetch_progress(progress, id) # None
    IN  /\ procs[p].pc = "ready"
        /\ AttemptsOf(progress, id) < MaxAttempts
        /\ procs' = [procs EXCEPT ![p] =
              IF ~rating_value_parser(rating)
              THEN [ProcReady EXCEPT !.pc = "done", !.status = "InvalidRating"]
              ELSE IF attempt_rating = "unreachable"
              THEN [ProcReady EXCEPT !.pc = "done", !.status = "panic"]
              ELSE IF attempt_date.err
              THEN [ProcReady EXCEPT !.pc = "done", !.status = "InvalidDate"]
              ELSE [ProcReady EXCEPT
                       !.pc = IF found THEN "update_progress"
                              ELSE "add_or_replace_progress",
                       !.id = id,
                       !.rating = attempt_rating,
                       !.date = attempt_date.value,
                       !.base = AttemptsOf(progress, id)]]
        /\ UNCHANGED <<problems, progress, last, logged>>

\* The first-attempt branch: add_or_replace_progress, then the success message.
ProcAddOrReplace(p, now) ==
    LET me == procs[p]
        call == add_or_replace_progress(progress, me.id, me.rating, me.date, now)
    IN  /\ me.pc = "add_or_replace_progress"
        /\ progress' = call.table
        /\ procs' = [procs EXCEPT ![p].pc = "done", ![p].status = call.status,
                                  ![p].current = call.current]
        /\ logged' = IF call.status = "ok"
                     THEN [logged EXCEPT ![me.id] = @ + 1]
                     ELSE logged
        /\ UNCHANGED <<problems, last>>

\* The update branch, up to the UPDATE statement: update_progress fetches the
\* record again and update_attempt changes that copy in memory.
ProcUpdateFetch(p, now) ==
    LET me == procs[p]
        fetched == fetch_progress(progress, me.id)
        updated == update_attempt(fetched[1], me.rating, me.date, now)
    IN  /\ me.pc = "update_progress"
        /\ procs' = [procs EXCEPT ![p] =
              IF fetched = None
              THEN [me EXCEPT !.pc = "done", !.status = "NoPriorAttempt"]
              ELSE IF updated.panic
              THEN [me EXCEPT !.pc = "done", !.status = "panic",
                              !.current = Some(updated.self)]
              ELSE [me EXCEPT !.pc = "write", !.current = Some(updated.self)]]
        /\ UNCHANGED <<problems, progress, last, logged>>

\* The UPDATE statement of update_progress, then the success message.
ProcUpdateWrite(p) ==
    LET me == procs[p]
    IN  /\ me.pc = "write"
        /\ progress' = UpdateWhere(progress, me.current[1])
        /\ procs' = [procs EXCEPT ![p].pc = "done", ![p].status = "ok"]
        /\ logged' = [logged EXCEPT ![me.id] = @ + 1]
        /\ UNCHANGED <<problems, last>>

\* Attempt commands run one after the other before the two processes start,
\* then the steps of the two processes in any order.
NextConc ==
    \/ \E id \in ConcItems, rating \in CatalogRatings, date \in CatalogDateArgs :
          \E now \in ClockWhen(date) : AllReady /\ CmdAttempt(id, rating, date, now)
    \/ \E p \in Procs, id \in ConcItems, rating \in CatalogRatings,
          date \in ConcDateArgs : ProcMainFetch(p, id, rating, date)
    \/ \E p \in Procs : \E now \in ClockWhen(procs[p].date) : ProcAddOrReplace(p, now)
    \/ \E p \in Procs : \E now \in ClockWhen(procs[p].date) : ProcUpdateFetch(p, now)
    \/ \E p \in Procs : ProcUpdateWrite(p)

SpecConc == Init /\ [][NextConc]_vars

-----------------------------------------------------------------------------
(* Properties *)

Attempted(table) == {r.problem_id : r \in table}

\* C1: after any sequence of Attempt commands run one after the other, every
\* item that has a progress record has number_of_attempts equal to the number
\* of Attempt commands that reported success for it, hence at least 1.
AttemptCountMatchesLog ==
    \A r \in progress :
        /\ r.number_of_attempts = logged[r.problem_id]
        /\ r.number_of_attempts >= 1

\* C1 happens: a second Attempt for an item went through update_progress, while
\* another item has one attempt logged.
AttemptCountWitness ==
    /\ last.op = "attempt" /\ last.status = "ok" /\ last.path = "update"
    /\ \E r \in progress : r.problem_id = last.id /\ r.number_of_attempts = 2
    /\ \E i \in ItemIds : logged[i] = 1

\* C2: every progress record whose next_attempt_date is present has
\* next_attempt_date >= last_attempted, and so has the record an attempt
\* leaves in memory when it succeeds, whatever the rating, the count and the
\* date, also a date earlier than the previous last_attempted.
NextDateNotBeforeLast ==
    /\ \A r \in progress :
          r.next_attempt_date # None => r.next_attempt_date[1] >= r.last_attempted
    /\ (last.op = "attempt" /\ last.status = "ok") =>
          \A c \in {last.current[1]} :
              c.next_attempt_date # None => c.next_attempt_date[1] >= c.last_attempted

\* C2 happens: an update whose date is earlier than the previous last_attempted.
EarlierDateWitness ==
    /\ last.op = "attempt" /\ last.status = "ok" /\ last.path = "update"
    /\ last.prior # None /\ last.date # None
    /\ last.date[1] < last.prior[1]

UpdateWithoutRecordFails ==
    [][(last'.op = "update_progress" /\ RowsOf(progress, last'.id) = {}) =>
          /\ last'.status = "NoPriorAttempt"
          /\ RowsOf(progress', last'.id) = {}
          /\ progress' = progress]_vars

\* C5 happens: update_progress failed for an item without a record while the
\* other item has one.
UpdateWithoutRecordWitness ==
    /\ last.op = "update_progress" /\ last.status = "NoPriorAttempt"
    /\ RowsOf(progress, last.id) = {}
    /\ progress # {}

\* C6: the next-unattempted query returns a catalog entry with the smallest
\* order value among the entries that have no progress record, returns nothing
\* exactly when every catalogued item has a progress record, and gives the same
\* without the progress records of items absent from the catalog.
NextUnattemptedIsSmallestOrder ==
    LET unattempted == {p \in problems : p.id \notin Attempted(progress)}
        catalogued == {r \in progress : \E p \in problems : p.id = r.problem_id}
    IN  /\ last.op = "next" =>
              /\ (last.result = None) <=> (unattempted = {})
              /\ last.result # None =>
                    /\ last.result[1] \in unattempted
                    /\ \A q \in unattempted : last.result[1].order <= q.order
        /\ fetch_next_unattempted_problem(problems, progress)
              = fetch_next_unattempted_problem(problems, catalogued)

\* C6 happens: with the catalog of items 1, 2, 3 in that order and progress
\* records for items 1 and 3, the query returned item 2.
NextUnattemptedWitness ==
    /\ last.op = "next"
    /\ problems = {Problem(1, 1), Problem(2, 2), Problem(3, 3)}
    /\ Attempted(progress) = {1, 3}
    /\ last.result = Some(Problem(2, 2))

RatingOf == <<"ShortFail", "LongFail", "Messy", "Hard", "Easy">>

\* C7: next_interval returns one day for every grade and every attempt count,
\* so every progress record, after a first and after a subsequent attempt, has
\* a next_attempt_date, which is last_attempted plus one day.
NextDateIsOneDayLater ==
    /\ \A g \in AttemptRating, n \in 0..MaxAttempts : next_interval(g, n) = Some(1)
    /\ \A r \in progress : r.next_attempt_date = Some(r.last_attempted + 1)
    /\ (last.op = "attempt" /\ last.status = "ok") =>
          /\ last.current # None
          /\ last.current[1].next_attempt_date
                = Some(last.current[1].last_attempted + 1)

\* C7 happens: after a first attempt on 2024-01-01, the attempt rated Hard on
\* 2024-02-01 left the record due on 2024-02-02.
OneDayLaterWitness ==
    /\ last.op = "attempt" /\ last.status = "ok" /\ last.path = "update"
    /\ last.prior = Some(DaysFromCivil(2024, 1, 1))
    /\ \E r \in progress :
          /\ r.problem_id = last.id
          /\ r.number_of_attempts = 2
          /\ r.attempt_rating = "Hard"
          /\ r.last_attempted = DaysFromCivil(2024, 2, 1)
          /\ r.next_attempt_date = Some(DaysFromCivil(2024, 2, 2))

\* C8 as stated: the subsequent-attempt transition leaves the record passed in
\* unchanged: when update_progress has succeeded, its in-memory record is still
\* the record it fetched.
RecordPassedInUnchanged ==
    [][(last'.op = "update_progress" /\ last'.status = "ok") =>
          last'.current = fetch_progress(progress, last'.id)]_vars

\* C8 amended: update_attempt changes the record it is given in place: when
\* update_progress has succeeded, its in-memory record is no longer the record
\* it fetched but that record with the count raised by one, the new rating and
\* the new dates, and this whole record is what the store then holds; the
\* stored record changes only by that write (a call that fails or panics leaves
\* the store as it was).
RecordMutatedInPlace ==
    [][last'.op = "update_progress" =>
          /\ last'.status = "ok" =>
                /\ last'.current # None
                /\ last'.current # fetch_progress(progress, last'.id)
                /\ \A r \in RowsOf(progress, last'.id) :
                      /\ last'.current[1].problem_id = r.problem_id
                      /\ last'.current[1].number_of_attempts = r.number_of_attempts + 1
                      /\ last'.current[1].attempt_rating = last'.rating
                      /\ last'.date # None =>
                            last'.current[1].last_attempted = last'.date[1]
                /\ RowsOf(progress', last'.id) = {last'.current[1]}
                /\ progress' = UpdateWhere(progress, last'.current[1])
          /\ last'.status # "ok" => progress' = progress]_vars

\* C8 happens: update_progress succeeded on a record.
RecordMutatedWitness ==
    /\ last.op = "update_progress" /\ last.status = "ok"
    /\ last.current # None
    /\ last.current[1].number_of_attempts = 2
    /\ RowsOf(progress, last.id) = {last.current[1]}

\* The date argument as typed is no calendar date.
Unparseable(date) == date # None /\ parse_from_str(date[1]) = None

\* C9: an Attempt command whose date does not parse as a calendar date, or
\* whose rating is outside 1..5, fails with an error before any write: every
\* progress record is as before, and the rating is never coerced (an accepted
\* rating 1..5 is passed on as ShortFail, LongFail, Messy, Hard, Easy in that
\* order).
InvalidAttemptAborts ==
    [][last'.op = "attempt" =>
          /\ last'.typed[1] \notin 1..5 =>
                /\ last'.status = "InvalidRating"
                /\ progress' = progress
          /\ (last'.typed[1] \in 1..5 /\ Unparseable(last'.typed[2])) =>
                /\ last'.status = "InvalidDate"
                /\ progress' = progress
          /\ last'.typed[1] \in 1..5 => last'.rating = RatingOf[last'.typed[1]]
          /\ last'.status = "ok" =>
                /\ last'.typed[1] \in 1..5
                /\ ~Unparseable(last'.typed[2])
                /\ \E r \in RowsOf(progress', last'.id) :
                      r.attempt_rating = RatingOf[last'.typed[1]]]_vars

\* C9 happens: an Attempt failed on its date while the store holds a record.
InvalidAttemptWitness ==
    /\ last.op = "attempt" /\ last.status = "InvalidDate"
    /\ Unparseable(last.typed[2])
    /\ progress # {}

\* C10: a progress record is never deleted: an item that has a record has one
\* after every command (attempt, next, progress, all, build), and the
\* next-unattempted query does not return an item that has a record.
RecordNeverDeleted ==
    [][/\ Attempted(progress) \subseteq Attempted(progress')
       /\ (last'.op = "next" /\ last'.result # None) =>
             /\ last'.result[1].id \notin Attempted(progress)
             /\ last'.result[1].id \notin Attempted(progress')]_vars

\* C10 happens: the query passed over a catalogued item that has a record and
\* returned a later one.
RecordKeptWitness ==
    /\ last.op = "next" /\ last.result # None
    /\ \E p \in problems :
          /\ p.id \in Attempted(progress)
          /\ p.order < last.result[1].order


Min(a, b) == IF a <= b THEN a ELSE b

\* C11: when two Attempt commands for the same item run as separate processes
\* and interleave their steps, no attempt is lost: once both have completed
\* successfully, the item's number_of_attempts is 2 higher than it was before
\* them (2 when the item had no record).
NoAttemptLost ==
    (/\ \A p \in Procs : procs[p].pc = "done" /\ procs[p].status = "ok"
     /\ procs[1].id = procs[2].id) =>
        AttemptsOf(progress, procs[1].id)
            = Min(procs[1].base, procs[2].base) + 2

====
